---- MODULE Spec2Model ----
(***************************************************************************)
(* Operation Execution Engine of git-mcp-server: the commit, diff,         *)
(* merge-base and clone orchestrators, each composing                      *)
(* buildGitCommand -> execGit -> parse -> mapGitError.                     *)
(*                                                                         *)
(* A string is modelled as a text: a sequence of atoms, an atom being a    *)
(* character or a literal chunk ("--stat").  An argument vector is a       *)
(* sequence of texts.  One call is in flight at a time; every await of     *)
(* execGit is a step whose outcome (resolve with a stdout, or reject with  *)
(* some value) is chosen by the environment.                               *)
(***************************************************************************)
EXTENDS Integers, Sequences, FiniteSets, TLC

VARIABLES
    pc,           \* position of the call in flight ("idle" when none)
    op,           \* operation of the call in flight
    options,      \* its options object
    args,         \* the handler's local `args`
    shouldSign,   \* executeCommit: const shouldSign
    commitError,  \* executeCommit: let commitError
    commitHash,   \* executeCommit: const commitHash
    diffOut,      \* executeDiff: diffResult.stdout
    diffPromise,  \* gitDiffLogic: the promise provider.diff returned
    execLog,      \* the execGit invocations of this call, in order
    commits,      \* the commits this call has created in the repository
    outcome,      \* "pending" | "returned" | "thrown"
    result,       \* the value returned (when outcome = "returned")
    failure,      \* the value thrown (when outcome = "thrown")
    signDefault   \* process-wide default read by shouldSignCommits()

vars == <<pc, op, options, args, shouldSign, commitError, commitHash, diffOut,
          diffPromise, execLog, commits, outcome, result, failure, signDefault>>

-----------------------------------------------------------------------------
(* Texts *)

Lit(s) == <<s>>

Range(s) == {s[i] : i \in 1..Len(s)}

\* what String.prototype.trim and parseInt strip: WhiteSpace (TAB, VT, FF, SP,
\* NBSP, U+FEFF and the other space separators) and LineTerminator (LF, CR,
\* U+2028, U+2029); the characters that have no escape are named atoms
WhiteSpaceChars == {"\t", "<VT>", "\f", " ", "<NBSP>", "<ZWNBSP>", "<USP>"}

LineTerminators == {"\n", "\r", "<LS>", "<PS>"}

Whitespace == WhiteSpaceChars \cup LineTerminators

RECURSIVE TrimStart(_)
TrimStart(s) ==
    IF s # <<>> /\ Head(s) \in Whitespace THEN TrimStart(Tail(s)) ELSE s

RECURSIVE TrimEnd(_)
TrimEnd(s) ==
    IF s # <<>> /\ s[Len(s)] \in Whitespace
    THEN TrimEnd(SubSeq(s, 1, Len(s) - 1))
    ELSE s

\* String.prototype.trim
Trim(s) == TrimEnd(TrimStart(s))

\* String.prototype.split(d) for a one-atom delimiter d: at least one part
RECURSIVE SplitFrom(_, _, _, _)
SplitFrom(s, d, i, cur) ==
    IF i > Len(s) THEN <<cur>>
    ELSE IF s[i] = d THEN <<cur>> \o SplitFrom(s, d, i + 1, <<>>)
    ELSE SplitFrom(s, d, i + 1, Append(cur, s[i]))

Split(s, d) == SplitFrom(s, d, 1, <<>>)

-----------------------------------------------------------------------------
(* Values that execGit may reject with, and the errors the handlers throw *)

JsValue(type, codeKind, code, origin, message) ==
    [type |-> type, codeKind |-> codeKind, code |-> code, origin |-> origin,
     message |-> message]

NullValue == JsValue("null", "absent", 0, "other", "")
UndefinedValue == JsValue("undefined", "absent", 0, "other", "")

\* an object that is no Error but has code: 1
ObjectCode1 == JsValue("object", "number", 1, "other", "")

\* Process Executor: the tool ran and exited with the non-zero code c
ExecError(c) == JsValue("Error", "number", c, "exit", "stderr")

\* Process Executor: the tool could not be spawned (ENOENT, EACCES, bad cwd)
SpawnError == JsValue("Error", "string", 0, "spawn", "ENOENT")

\* Process Executor: the context was cancelled or timed out
CancelError == JsValue("Error", "string", 0, "cancel", "aborted")

\* new McpError(JsonRpcErrorCode.InvalidParams, message)
McpInvalidParams(message) ==
    JsValue("McpError", "number", 0, "validation", message)

\* new Error(message)
PlainError(message) == JsValue("Error", "absent", 0, "other", message)

\* error instanceof Error
InstanceOfError(e) == e.type \in {"Error", "McpError"}

ExitCodes == {1, 2, 128}

Rejections ==
    {NullValue, UndefinedValue, ObjectCode1, SpawnError, CancelError}
    \cup {ExecError(c) : c \in ExitCodes}

\* Error Mapper: the kind of a caught value
ErrorKind(e) ==
    CASE e.origin = "validation" -> "ValidationError"
      [] e.origin = "spawn" -> "EnvironmentError"
      [] e.origin = "cancel" -> "CancellationError"
      [] OTHER -> "ExecutionFailure"

\* Error Mapper: map(caughtError, operationName) -> DomainError
mapGitError(error, operation) ==
    [kind |-> ErrorKind(error), message |-> error.message, cause |-> error,
     operation |-> operation]

\* Command Builder: { command, args } -> argument vector
buildGitCommand(command, cmdArgs) == <<Lit(command)>> \o cmdArgs

NoValue == [none |-> TRUE]

\* context.workingDirectory
WorkingDirectory == <<"/", "repo">>

\* one execGit invocation, as recorded in execLog: the command, the working
\* directory, whether it resolved, the value it rejected with, and the stdout
\* it resolved with
Invocation(cmd, cwd, ok, error, stdout) ==
    [cmd |-> cmd, cwd |-> cwd, ok |-> ok, error |-> error, stdout |-> stdout]

\* await execGit(cmd, cwd, ctx) resolved with { stdout }
Resolved(cmd, cwd, stdout) ==
    execLog' = Append(execLog, Invocation(cmd, cwd, TRUE, NoValue, stdout))

\* await execGit(cmd, cwd, ctx) rejected with error
Rejected(cmd, cwd, error) ==
    execLog' = Append(execLog, Invocation(cmd, cwd, FALSE, error, NoValue))

-----------------------------------------------------------------------------
(* Optional booleans: "true" | "false" | "undefined" *)

Tri == {"true", "false", "undefined"}

Truthy(t) == t = "true"

\* mutant: || in place of ??, so an explicit false falls to the default
Nullish_Or(t, b) == t = "true" \/ b

\* a ?? b
Nullish(t, b) == IF t = "undefined" THEN b ELSE t = "true"

-----------------------------------------------------------------------------
(* Commit metadata wire format *)

GIT_FIELD_DELIMITER == "<FD>"
GIT_RECORD_DELIMITER == "<RD>"

Digits == <<"0", "1", "2", "3", "4", "5", "6", "7", "8", "9">>

IsDigit(c) == \E d \in 1..10 : Digits[d] = c

DigitValue(c) == (CHOOSE d \in 1..10 : Digits[d] = c) - 1

RECURSIVE DigitPrefix(_, _, _)
DigitPrefix(s, acc, seen) ==
    IF s # <<>> /\ IsDigit(Head(s))
    THEN DigitPrefix(Tail(s), 10 * acc + DigitValue(Head(s)), TRUE)
    ELSE [isNaN |-> ~seen, value |-> acc]

\* parseInt(s, 10): leading whitespace skipped, an optional sign, then the
\* longest run of digits; NaN when there is none
ParseInt(s) ==
    LET t == TrimStart(s)
        neg == t # <<>> /\ Head(t) = "-"
        u == IF t # <<>> /\ Head(t) \in {"-", "+"} THEN Tail(t) ELSE t
        n == DigitPrefix(u, 0, FALSE)
    IN  [isNaN |-> n.isNaN, value |-> IF neg THEN 0 - n.value ELSE n.value]

\* executeCommit: decoding of `git show --format=... --name-only`
ParseShow(stdout) ==
    LET parts == Split(stdout, GIT_RECORD_DELIMITER)
        metaParts == Split(parts[1], GIT_FIELD_DELIMITER)
        authorName == metaParts[1]
        timestamp ==
            ParseInt(IF Len(metaParts) >= 2 /\ metaParts[2] # <<>>
                     THEN metaParts[2] ELSE Lit("0"))
        NonBlank(f) == Trim(f) # <<>>
        filesChanged ==
            IF Len(parts) >= 2 THEN SelectSeq(Split(parts[2], "\n"), NonBlank)
            ELSE <<>>
    IN  [author |-> authorName, timestamp |-> timestamp,
         filesChanged |-> filesChanged]

-----------------------------------------------------------------------------
(* Inputs of the commit orchestrator *)

NoAuthor == [present |-> FALSE, name |-> <<>>, email |-> <<>>]
SomeAuthor == [present |-> TRUE, name |-> Lit("Ann"), email |-> Lit("a@x")]

CommitOptionSet ==
    [message : {Lit("msg")}, amend : BOOLEAN, allowEmpty : BOOLEAN,
     noVerify : BOOLEAN, author : {NoAuthor, SomeAuthor},
     sign : Tri, forceUnsignedOnFailure : Tri]

\* stdout of `git commit`: the summary line, which names an abbreviated hash
CommitOutput == <<"[main ", "a", "] ", "msg", "\n">>

\* stdout of `git rev-parse HEAD`
HashOutputs ==
    {<<"a", "b", "\n">>, <<" ", "c", "\n">>, <<"\t", "a", "b", "\r", "\n">>,
     <<>>}

\* stdout of `git show --format=%an<FD>%at<RD> --name-only <hash>`
ShowOutputs ==
    {<<"A", GIT_FIELD_DELIMITER, "1", "7", GIT_RECORD_DELIMITER,
       "\n", "\n", "f", "\n", "g", "\n">>,
     <<"A", GIT_FIELD_DELIMITER, "x", GIT_RECORD_DELIMITER>>,
     <<"A", GIT_FIELD_DELIMITER, "\t", "1", "7", GIT_RECORD_DELIMITER,
       "\n", "\t", "\n", "f", "\r", "\n">>,
     <<"A", "\n">>,
     <<>>}

-----------------------------------------------------------------------------
(* executeCommit *)

\* the arguments shared by the signed and the unsigned attempt
CommitArgs(o) ==
    LET a0 == <<Lit("-m"), o.message>>
        a1 == IF o.amend THEN Append(a0, Lit("--amend")) ELSE a0
        a2 == IF o.allowEmpty THEN Append(a1, Lit("--allow-empty")) ELSE a1
        a3 == IF o.noVerify THEN Append(a2, Lit("--no-verify")) ELSE a2
        authorStr == o.author.name \o <<" <">> \o o.author.email \o <<">">>
    IN  IF o.author.present THEN Append(a3, <<"--author=">> \o authorStr)
        ELSE a3

\* const shouldSign = options.sign ?? shouldSignCommits()
ShouldSign(o, default) == Nullish(o.sign, default)

SignedCommitCmd(a) == buildGitCommand("commit", Append(a, Lit("--gpg-sign")))

UnsignedCommitCmd(a) ==
    buildGitCommand("commit", Append(a, Lit("--no-gpg-sign")))

RevParseCmd == buildGitCommand("rev-parse", <<Lit("HEAD")>>)

ShowCmd(hash) ==
    buildGitCommand("show",
        <<<<"--format=", "%an", GIT_FIELD_DELIMITER, "%at",
            GIT_RECORD_DELIMITER>>,
          Lit("--name-only"), hash>>)

\* mutant: the fallback is taken whatever forceUnsignedOnFailure says
RetryUnsigned_Always(o) == TRUE

\* catch (error): if (options.forceUnsignedOnFailure) the error is stored for
\* the retry, else it is thrown on to the outer catch
RetryUnsigned(o) == Truthy(o.forceUnsignedOnFailure)

\* mutant: the unsigned attempt is run after every signed attempt
NeedsUnsignedAttempt_Always(err, sign) == TRUE

\* mutant: a failed signed attempt is never followed by the unsigned one
NeedsUnsignedAttempt_NoRetry(err, sign) == ~sign

\* if (commitError !== null || !shouldSign)
NeedsUnsignedAttempt(err, sign) == err # NullValue \/ ~sign

\* mutant: the outer catch rethrows the value it caught
Throw_Unmapped(error, operation) ==
    /\ outcome' = "thrown"
    /\ failure' = error
    /\ result' = NoValue
    /\ pc' = "done"

\* mutant: every catch maps under the name of the commit operation
Throw_WrongOperation(error, operation) ==
    /\ outcome' = "thrown"
    /\ failure' = mapGitError(error, "commit")
    /\ result' = NoValue
    /\ pc' = "done"

\* the outer catch of a handler: throw mapGitError(error, operation)
Throw(error, operation) ==
    /\ outcome' = "thrown"
    /\ failure' = mapGitError(error, operation)
    /\ result' = NoValue
    /\ pc' = "done"

Return(value) ==
    /\ outcome' = "returned"
    /\ result' = value
    /\ failure' = NoValue
    /\ pc' = "done"

Pending == UNCHANGED <<outcome, result, failure>>

Init ==
    /\ pc = "idle"
    /\ op = "none"
    /\ options = NoValue
    /\ args = <<>>
    /\ shouldSign = FALSE
    /\ commitError = NullValue
    /\ commitHash = <<>>
    /\ diffOut = <<>>
    /\ diffPromise = NoValue
    /\ execLog = <<>>
    /\ commits = <<>>
    /\ outcome = "pending"
    /\ result = NoValue
    /\ failure = NoValue
    /\ signDefault \in BOOLEAN

\* executeCommit up to its first await: the arguments and the signing policy
CommitCall ==
    /\ pc = "idle"
    /\ \E o \in CommitOptionSet :
        /\ op' = "commit"
        /\ options' = o
        /\ args' = CommitArgs(o)
        /\ shouldSign' = ShouldSign(o, signDefault)
        /\ commitError' = NullValue
        /\ pc' = IF ShouldSign(o, signDefault) THEN "commit:signed"
                 ELSE IF NeedsUnsignedAttempt(NullValue,
                                              ShouldSign(o, signDefault))
                 THEN "commit:unsigned"
                 ELSE "commit:rev-parse"
    /\ UNCHANGED <<commitHash, diffOut, diffPromise, execLog, commits,
                   signDefault>>
    /\ Pending

\* await execGit(commit --gpg-sign) and its catch
CommitSigned ==
    /\ pc = "commit:signed"
    /\ \/ /\ Resolved(SignedCommitCmd(args), WorkingDirectory, CommitOutput)
          /\ commits' = Append(commits, "signed")
          /\ pc' = IF NeedsUnsignedAttempt(commitError, shouldSign)
                   THEN "commit:unsigned" ELSE "commit:rev-parse"
          /\ UNCHANGED commitError
          /\ Pending
       \/ \E error \in Rejections :
          /\ Rejected(SignedCommitCmd(args), WorkingDirectory, error)
          /\ UNCHANGED commits
          /\ IF RetryUnsigned(options)
             THEN /\ commitError' = error
                  /\ pc' = IF NeedsUnsignedAttempt(error, shouldSign)
                           THEN "commit:unsigned" ELSE "commit:rev-parse"
                  /\ Pending
             ELSE /\ UNCHANGED commitError
                  /\ Throw(error, "commit")
    /\ UNCHANGED <<op, options, args, shouldSign, commitHash, diffOut,
                   diffPromise, signDefault>>

\* await execGit(commit --no-gpg-sign)
CommitUnsigned ==
    /\ pc = "commit:unsigned"
    /\ \/ /\ Resolved(UnsignedCommitCmd(args), WorkingDirectory,
                      CommitOutput)
          /\ commits' = Append(commits, "unsigned")
          /\ pc' = "commit:rev-parse"
          /\ Pending
       \/ \E error \in Rejections :
          /\ Rejected(UnsignedCommitCmd(args), WorkingDirectory, error)
          /\ UNCHANGED commits
          /\ Throw(error, "commit")
    /\ UNCHANGED <<op, options, args, shouldSign, commitError, commitHash,
                   diffOut, diffPromise, signDefault>>

\* await execGit(rev-parse HEAD); commitHash = stdout.trim()
CommitRevParse ==
    /\ pc = "commit:rev-parse"
    /\ \/ \E stdout \in HashOutputs :
          /\ Resolved(RevParseCmd, WorkingDirectory, stdout)
          /\ commitHash' = Trim(stdout)
          /\ pc' = "commit:show"
          /\ Pending
       \/ \E error \in Rejections :
          /\ Rejected(RevParseCmd, WorkingDirectory, error)
          /\ UNCHANGED commitHash
          /\ Throw(error, "commit")
    /\ UNCHANGED <<op, options, args, shouldSign, commitError, diffOut,
                   diffPromise, commits, signDefault>>

\* await execGit(show ...); decode and return the result
CommitShow ==
    /\ pc = "commit:show"
    /\ \/ \E stdout \in ShowOutputs :
          /\ Resolved(ShowCmd(commitHash), WorkingDirectory, stdout)
          /\ Return([success |-> TRUE, commitHash |-> commitHash,
                     message |-> options.message,
                     author |-> ParseShow(stdout).author,
                     timestamp |-> ParseShow(stdout).timestamp,
                     filesChanged |-> ParseShow(stdout).filesChanged])
       \/ \E error \in Rejections :
          /\ Rejected(ShowCmd(commitHash), WorkingDirectory, error)
          /\ Throw(error, "commit")
    /\ UNCHANGED <<op, options, args, shouldSign, commitError, commitHash,
                   diffOut, diffPromise, commits, signDefault>>

\* the call is over; the next call starts from a fresh handler frame
Finish ==
    /\ pc = "done"
    /\ pc' = "idle"
    /\ op' = "none"
    /\ options' = NoValue
    /\ args' = <<>>
    /\ shouldSign' = FALSE
    /\ commitError' = NullValue
    /\ commitHash' = <<>>
    /\ diffOut' = <<>>
    /\ diffPromise' = NoValue
    /\ execLog' = <<>>
    /\ commits' = <<>>
    /\ outcome' = "pending"
    /\ result' = NoValue
    /\ failure' = NoValue
    /\ UNCHANGED signDefault


-----------------------------------------------------------------------------
(* executeMergeBase *)

MaxRefs == 3

RefNames == {Lit("A"), Lit("B")}

RefSeqs == UNION {[1..n -> RefNames] : n \in 0..MaxRefs}

MergeBaseOptionSet ==
    [refs : RefSeqs, mode : {"default", "all", "is-ancestor", "undefined"}]

MaxOutput == 4

OutputAtoms == {"h", "k", " ", "\n", "\r", "\t"}

\* stdout of `git merge-base`: every text of at most MaxOutput atoms
MergeBaseOutputs == UNION {[1..n -> OutputAtoms] : n \in 0..MaxOutput}

\* mutant: the mode of the options is used as it came
Mode_Raw(o) == o.mode

\* const mode = options.mode || 'default'
Mode(o) == IF o.mode = "undefined" THEN "default" ELSE o.mode

\* mutant: exactly two refs are required under every mode
RefCountInvalid_ExactlyTwo(mode, refs) == Len(refs) # 2

\* mutant: the "at least one ref" check is missing
RefCountInvalid_NoMinimum(mode, refs) ==
    mode = "is-ancestor" /\ Len(refs) # 2

\* the two precondition checks, in the order of the code
RefCountInvalid(mode, refs) ==
    \/ mode = "is-ancestor" /\ Len(refs) # 2
    \/ Len(refs) < 1

RefCountError(mode, refs) ==
    IF mode = "is-ancestor" /\ Len(refs) # 2
    THEN McpInvalidParams("is-ancestor mode requires exactly 2 refs")
    ELSE McpInvalidParams("At least 1 ref required for merge-base")

\* switch (mode) ... args.push(...options.refs)
MergeBaseArgs(mode, refs) ==
    (CASE mode = "all" -> <<Lit("--all")>>
       [] mode = "is-ancestor" -> <<Lit("--is-ancestor")>>
       [] OTHER -> <<>>) \o refs

NullBase == [kind |-> "null", value |-> <<>>]
StringBase(h) == [kind |-> "string", value |-> h]
ArrayBase(hs) == [kind |-> "array", value |-> hs]

MergeBaseResult(base, isAncestor, refs, mode) ==
    [success |-> TRUE, mergeBase |-> base, isAncestor |-> isAncestor,
     refs |-> refs, mode |-> mode]

\* mutant: the lines are not trimmed
HashLines_NoTrim(output) ==
    LET lines == Split(output, "\n")
        NonEmpty(line) == Len(line) > 0
    IN  SelectSeq(lines, NonEmpty)

\* mutant: empty lines are kept
HashLines_NoFilter(output) ==
    LET lines == Split(output, "\n")
    IN  [i \in 1..Len(lines) |-> Trim(lines[i])]

\* output.split('\n').map(trim).filter(non-empty)
HashLines(output) ==
    LET lines == Split(output, "\n")
        trimmed == [i \in 1..Len(lines) |-> Trim(lines[i])]
        NonEmpty(line) == Len(line) > 0
    IN  SelectSeq(trimmed, NonEmpty)

\* the result of a resolved execGit
MergeBaseParsed(mode, refs, stdout) ==
    LET output == Trim(stdout)
        hashes == HashLines(output)
    IN  IF mode = "is-ancestor"
        THEN MergeBaseResult(NullBase, "true", refs, mode)
        ELSE IF output = <<>>
        THEN MergeBaseResult(NullBase, "undefined", refs, mode)
        ELSE IF mode = "all"
        THEN MergeBaseResult(ArrayBase(hashes), "undefined", refs, mode)
        ELSE MergeBaseResult(
                IF hashes # <<>> /\ hashes[1] # <<>>
                THEN StringBase(hashes[1]) ELSE NullBase,
                "undefined", refs, mode)

\* mutant: exit code 1 is not special-cased
NotAncestorExit_Never(mode, error) == FALSE

\* mutant: exit code 1 is special-cased under every mode
NotAncestorExit_AnyMode(mode, error) ==
    /\ InstanceOfError(error)
    /\ error.codeKind = "number" /\ error.code = 1

\* the inner catch: exit code 1 under is-ancestor is an answer, not an error
NotAncestorExit(mode, error) ==
    /\ mode = "is-ancestor"
    /\ InstanceOfError(error)
    /\ error.codeKind # "absent"
    /\ error.codeKind = "number" /\ error.code = 1

\* the inputs the tool's schema accepts: at least one ref, the mode defaulted
MergeBaseInputSet ==
    [refs : RefSeqs \ {<<>>}, mode : {"default", "all", "is-ancestor"}]

\* gitMergeBaseLogic: the options handed to provider.mergeBase; the mode is
\* left out when it is 'default'
MergeBaseToolOptions(input) ==
    [refs |-> input.refs,
     mode |-> IF input.mode # "default" THEN input.mode ELSE "undefined"]

\* gitMergeBaseLogic: the tool's output, field by field from the result
MergeBaseToolResult(r) ==
    [success |-> r.success, mergeBase |-> r.mergeBase,
     isAncestor |-> r.isAncestor, refs |-> r.refs, mode |-> r.mode]

\* executeMergeBase up to its await: validation, then the command
MergeBaseCall ==
    /\ pc = "idle"
    /\ \E o \in MergeBaseOptionSet :
        /\ op' = "merge-base"
        /\ options' = o
        /\ IF RefCountInvalid(Mode(o), o.refs)
           THEN /\ args' = <<>>
                /\ Throw(RefCountError(Mode(o), o.refs), "merge-base")
           ELSE /\ args' = MergeBaseArgs(Mode(o), o.refs)
                /\ pc' = "merge-base:exec"
                /\ Pending
    /\ UNCHANGED <<shouldSign, commitError, commitHash, diffOut, diffPromise,
                   execLog, commits, signDefault>>

\* await execGit(merge-base ...), the parse, and the inner and outer catch
MergeBaseExec ==
    /\ pc = "merge-base:exec"
    /\ \/ \E stdout \in MergeBaseOutputs :
          /\ Resolved(buildGitCommand("merge-base", args), WorkingDirectory,
                      stdout)
          /\ Return(MergeBaseParsed(Mode(options), options.refs, stdout))
       \/ \E error \in Rejections :
          /\ Rejected(buildGitCommand("merge-base", args),
                      WorkingDirectory, error)
          /\ IF NotAncestorExit(Mode(options), error)
             THEN Return(MergeBaseResult(NullBase, "false", options.refs,
                                         Mode(options)))
             ELSE Throw(error, "merge-base")
    /\ UNCHANGED <<op, options, args, shouldSign, commitError, commitHash,
                   diffOut, diffPromise, commits, signDefault>>

-----------------------------------------------------------------------------
(* node:path (posix), on texts whose atoms are "/" and segment names *)

\* process.cwd()
ProcessCwd == <<"/", "srv">>

IsAbsolute(p) == p # <<>> /\ p[1] = "/"

\* normalizeString: drop empty and "." segments, let ".." remove a segment
RECURSIVE NormalizeSegments(_, _)
NormalizeSegments(segs, acc) ==
    IF segs = <<>> THEN acc
    ELSE LET seg == Head(segs)
         IN  IF seg = <<>> \/ seg = <<".">>
             THEN NormalizeSegments(Tail(segs), acc)
             ELSE IF seg = <<"..">>
             THEN NormalizeSegments(Tail(segs),
                     IF acc = <<>> THEN acc ELSE SubSeq(acc, 1, Len(acc) - 1))
             ELSE NormalizeSegments(Tail(segs), Append(acc, seg))

RECURSIVE JoinAbsolute(_)
JoinAbsolute(segs) ==
    IF segs = <<>> THEN <<>>
    ELSE <<"/">> \o Head(segs) \o JoinAbsolute(Tail(segs))

\* path.resolve(p)
Resolve(p) ==
    LET full == IF IsAbsolute(p) THEN p
                ELSE IF p = <<>> THEN ProcessCwd
                ELSE ProcessCwd \o <<"/">> \o p
        segs == NormalizeSegments(Split(full, "/"), <<>>)
    IN  IF segs = <<>> THEN <<"/">> ELSE JoinAbsolute(segs)

\* index of the last "/" of p that is followed by a segment, 0 if none
RECURSIVE LastSeparator(_, _, _)
LastSeparator(p, i, matchedSlash) ==
    IF i < 2 THEN 0
    ELSE IF p[i] = "/"
         THEN IF ~matchedSlash THEN i ELSE LastSeparator(p, i - 1, TRUE)
         ELSE LastSeparator(p, i - 1, FALSE)

\* path.dirname(p)
Dirname(p) ==
    IF p = <<>> THEN <<".">>
    ELSE LET end == LastSeparator(p, Len(p), TRUE)
         IN  IF end = 0 THEN (IF p[1] = "/" THEN <<"/">> ELSE <<".">>)
             ELSE IF p[1] = "/" /\ end = 2 THEN <<"/", "/">>
             ELSE SubSeq(p, 1, end - 1)

RECURSIVE StripTrailingSeparators(_)
StripTrailingSeparators(p) ==
    IF p # <<>> /\ p[Len(p)] = "/"
    THEN StripTrailingSeparators(SubSeq(p, 1, Len(p) - 1))
    ELSE p

\* path.basename(p)
Basename(p) ==
    LET parts == Split(StripTrailingSeparators(p), "/")
    IN  parts[Len(parts)]

-----------------------------------------------------------------------------
(* executeClone *)

MaxSegments == 3

SegmentNames == {"work", "proj", ".", ".."}

SegmentSeqs == UNION {[1..n -> SegmentNames] : n \in 0..MaxSegments}

RECURSIVE JoinRelative(_)
JoinRelative(names) ==
    IF names = <<>> THEN <<>>
    ELSE IF Len(names) = 1 THEN <<names[1]>>
    ELSE <<names[1], "/">> \o JoinRelative(Tail(names))

\* the path strings given as localPath: relative or absolute, with or without
\* a trailing "/"
PathInputs ==
    {lead \o JoinRelative(names) \o trail :
        lead \in {<<>>, <<"/">>}, names \in SegmentSeqs,
        trail \in {<<>>, <<"/">>}}

CloneFlagSet ==
    {[branch |-> <<>>, depth |-> 0, bare |-> FALSE, mirror |-> FALSE,
      recurseSubmodules |-> FALSE],
     [branch |-> Lit("dev"), depth |-> 1, bare |-> FALSE, mirror |-> FALSE,
      recurseSubmodules |-> TRUE],
     [branch |-> <<>>, depth |-> 0, bare |-> TRUE, mirror |-> TRUE,
      recurseSubmodules |-> FALSE]}

CloneOptionSet ==
    {[remoteUrl |-> Lit("git@host:r.git"), localPath |-> p,
      branch |-> f.branch, depth |-> f.depth, bare |-> f.bare,
      mirror |-> f.mirror, recurseSubmodules |-> f.recurseSubmodules] :
        p \in PathInputs, f \in CloneFlagSet}

\* const absoluteLocalPath = path.resolve(options.localPath)
AbsoluteLocalPath(o) == Resolve(o.localPath)

\* mutant: the tool is run from the target directory itself
ParentDir_Target(o) == AbsoluteLocalPath(o)

\* const parentDir = path.dirname(absoluteLocalPath)
ParentDir(o) == Dirname(AbsoluteLocalPath(o))

\* const targetDirName = path.basename(absoluteLocalPath)
TargetDirName(o) == Basename(AbsoluteLocalPath(o))

CloneArgs(o) ==
    LET a0 == <<o.remoteUrl, TargetDirName(o)>>
        a1 == IF o.branch # <<>> THEN a0 \o <<Lit("--branch"), o.branch>>
              ELSE a0
        a2 == IF o.depth # 0
              THEN a1 \o <<Lit("--depth"), Lit(ToString(o.depth))>> ELSE a1
        a3 == IF o.bare THEN Append(a2, Lit("--bare")) ELSE a2
        a4 == IF o.mirror THEN Append(a3, Lit("--mirror")) ELSE a3
    IN  IF o.recurseSubmodules THEN Append(a4, Lit("--recurse-submodules"))
        ELSE a4

CloneResult(o) ==
    [success |-> TRUE, localPath |-> AbsoluteLocalPath(o),
     remoteUrl |-> o.remoteUrl,
     branch |-> IF o.branch # <<>> THEN o.branch ELSE Lit("main")]

\* executeClone up to its await: the paths and the command
CloneCall ==
    /\ pc = "idle"
    /\ \E o \in CloneOptionSet :
        /\ op' = "clone"
        /\ options' = o
        /\ args' = CloneArgs(o)
    /\ pc' = "clone:exec"
    /\ UNCHANGED <<shouldSign, commitError, commitHash, diffOut, diffPromise,
                   execLog, commits, signDefault>>
    /\ Pending

\* await execGit(clone ..., parentDir) and the result
CloneExec ==
    /\ pc = "clone:exec"
    /\ \/ /\ Resolved(buildGitCommand("clone", args), ParentDir(options),
                      <<>>)
          /\ Return(CloneResult(options))
       \/ \E error \in Rejections :
          /\ Rejected(buildGitCommand("clone", args), ParentDir(options), error)
          /\ Throw(error, "clone")
    /\ UNCHANGED <<op, options, args, shouldSign, commitError, commitHash,
                   diffOut, diffPromise, commits, signDefault>>

-----------------------------------------------------------------------------
(* gitDiffLogic and executeDiff *)

MaxPaths == 3

PathNames == {Lit("src/a.ts"), Lit("--name-only")}

NoPaths == [present |-> FALSE, items |-> <<>>]

PathLists ==
    {NoPaths} \cup
    {[present |-> TRUE, items |-> ps] :
        ps \in UNION {[1..n -> PathNames] : n \in 0..MaxPaths}}

\* contextLines: z.number().int().min(0).max(100).default(3)
ContextLinesMin == 0
ContextLinesDefault == 3
ContextLinesMax == 100

ContextLinesSet == {ContextLinesMin, ContextLinesDefault, ContextLinesMax}

\* an absent ref is the empty text
RefInputs == {<<>>, Lit("main")}

DiffInputSet ==
    [source : RefInputs, target : RefInputs, paths : PathLists,
     staged : BOOLEAN, nameOnly : BOOLEAN,
     contextLines : ContextLinesSet]

\* stdout of the diff body
DiffOutputs == {<<>>, <<"diff --git", "\n">>, <<"Binary files", "\n">>}

\* stdout of `git diff --stat`, one entry per summary line
StatOutputs ==
    {<<>>,
     <<[file |-> Lit("a"), additions |-> 3, deletions |-> 1, binary |-> FALSE],
       [file |-> Lit("b"), additions |-> 0, deletions |-> 2, binary |-> FALSE],
       [file |-> Lit("c"), additions |-> 0, deletions |-> 0, binary |-> TRUE]>>}

RECURSIVE Sum(_)
Sum(ns) == IF ns = <<>> THEN 0 ELSE Head(ns) + Sum(Tail(ns))

\* Diffstat parser
parseGitDiffStat(stdout) ==
    LET Additions(e) == IF e.binary THEN 0 ELSE e.additions
        Deletions(e) == IF e.binary THEN 0 ELSE e.deletions
    IN  [files |-> [i \in 1..Len(stdout) |-> stdout[i].file],
         totalAdditions |->
            Sum([i \in 1..Len(stdout) |-> Additions(stdout[i])]),
         totalDeletions |->
            Sum([i \in 1..Len(stdout) |-> Deletions(stdout[i])])]

\* gitDiffLogic: if (input.paths.length > 1) throw
MultiplePaths(input) == input.paths.present /\ Len(input.paths.items) > 1

MultiplePathsError ==
    PlainError(
        "Multiple paths not yet supported - please specify a single path")

\* gitDiffLogic: the options handed to provider.diff; an absent path is <<>>
DiffOptions(input) ==
    [source |-> input.source, target |-> input.target,
     staged |-> input.staged, nameOnly |-> input.nameOnly,
     unified |-> input.contextLines,
     path |-> IF input.paths.present /\ Len(input.paths.items) > 0
              THEN input.paths.items[1] ELSE <<>>]

\* executeDiff: the arguments of the diff body
DiffArgs(o) ==
    LET a0 == IF o.staged THEN <<Lit("--cached")>> ELSE <<>>
        a1 == IF o.nameOnly THEN Append(a0, Lit("--name-only")) ELSE a0
        a2 == IF o.source # <<>> THEN Append(a1, o.source) ELSE a1
        a3 == IF o.target # <<>> THEN Append(a2, o.target) ELSE a2
        a4 == IF o.path # <<>> THEN a3 \o <<Lit("--"), o.path>> ELSE a3
    IN  IF o.unified # 0 /\ ~o.nameOnly
        THEN Append(a4, <<"--unified=", ToString(o.unified)>>)
        ELSE a4

\* mutant: --name-only is not stripped for the diffstat invocation
StatArgs_KeepNameOnly(a) == Append(a, Lit("--stat"))

\* executeDiff: the arguments of the diffstat invocation
StatArgs(a) ==
    LET NotNameOnly(x) == x # Lit("--name-only")
    IN  Append(SelectSeq(a, NotNameOnly), Lit("--stat"))

\* string.includes(atom)
Includes(text, atom) == atom \in Range(text)

\* executeDiff: the result built from the two stdouts
ExecuteDiffResult(diff, statOut) ==
    LET stats == parseGitDiffStat(statOut)
    IN  [diff |-> diff, filesChanged |-> Len(stats.files),
         insertions |-> stats.totalAdditions,
         deletions |-> stats.totalDeletions,
         binary |-> Includes(diff, "Binary files")]

\* gitDiffLogic: what it returns from provider.diff's result
DiffToolResult(r) ==
    [success |-> TRUE, diff |-> r.diff, filesChanged |-> r.filesChanged,
     insertions |-> r.insertions, deletions |-> r.deletions]

\* a settled promise: fulfilled with a value or rejected with an error
Fulfilled(value) == [ok |-> TRUE, value |-> value, error |-> NoValue]
Refused(error) == [ok |-> FALSE, value |-> NoValue, error |-> error]

\* gitDiffLogic up to the first await of provider.diff (executeDiff)
DiffCall ==
    /\ pc = "idle"
    /\ \E input \in DiffInputSet :
        /\ op' = "diff"
        /\ options' = input
        /\ IF MultiplePaths(input)
           THEN /\ args' = <<>>
                /\ outcome' = "thrown"
                /\ failure' = MultiplePathsError
                /\ result' = NoValue
                /\ pc' = "done"
           ELSE /\ args' = DiffArgs(DiffOptions(input))
                /\ pc' = "diff:body"
                /\ Pending
    /\ UNCHANGED <<shouldSign, commitError, commitHash, diffOut,
                   diffPromise, execLog, commits, signDefault>>

\* await execGit(diff ...): the diff body; a rejection goes to executeDiff's
\* catch, which rejects the promise gitDiffLogic awaits
DiffBody ==
    /\ pc = "diff:body"
    /\ \/ \E stdout \in DiffOutputs :
          /\ Resolved(buildGitCommand("diff", args), WorkingDirectory, stdout)
          /\ diffOut' = stdout
          /\ pc' = "diff:stat"
          /\ UNCHANGED diffPromise
       \/ \E error \in Rejections :
          /\ Rejected(buildGitCommand("diff", args), WorkingDirectory, error)
          /\ diffPromise' = Refused(mapGitError(error, "diff"))
          /\ pc' = "diff:return"
          /\ UNCHANGED diffOut
    /\ Pending
    /\ UNCHANGED <<op, options, args, shouldSign, commitError, commitHash,
                   commits, signDefault>>

\* await execGit(diff ... --stat), the parse and executeDiff's return, which
\* settles the promise gitDiffLogic awaits
DiffStat ==
    /\ pc = "diff:stat"
    /\ \/ \E stdout \in StatOutputs :
          /\ Resolved(buildGitCommand("diff", StatArgs(args)),
                      WorkingDirectory, stdout)
          /\ diffPromise' = Fulfilled(ExecuteDiffResult(diffOut, stdout))
       \/ \E error \in Rejections :
          /\ Rejected(buildGitCommand("diff", StatArgs(args)),
                      WorkingDirectory, error)
          /\ diffPromise' = Refused(mapGitError(error, "diff"))
    /\ pc' = "diff:return"
    /\ Pending
    /\ UNCHANGED <<op, options, args, shouldSign, commitError, commitHash,
                   diffOut, commits, signDefault>>

\* gitDiffLogic resumes from `await provider.diff(...)`: it returns its own
\* object built from the result, or the rejection leaves it as it came
DiffReturn ==
    /\ pc = "diff:return"
    /\ IF diffPromise.ok
       THEN Return(DiffToolResult(diffPromise.value))
       ELSE /\ outcome' = "thrown"
            /\ failure' = diffPromise.error
            /\ result' = NoValue
            /\ pc' = "done"
    /\ UNCHANGED <<op, options, args, shouldSign, commitError, commitHash,
                   diffOut, diffPromise, execLog, commits, signDefault>>

-----------------------------------------------------------------------------

Next ==
    \/ CommitCall
    \/ CommitSigned
    \/ CommitUnsigned
    \/ CommitRevParse
    \/ CommitShow
    \/ MergeBaseCall
    \/ MergeBaseExec
    \/ CloneCall
    \/ CloneExec
    \/ DiffCall
    \/ DiffBody
    \/ DiffStat
    \/ DiffReturn
    \/ Finish

Spec == Init /\ [][Next]_vars

-----------------------------------------------------------------------------
(* Properties *)

IsCommand(inv, command) == inv.cmd[1] = Lit(command)

HasArg(inv, flag) == Lit(flag) \in Range(inv.cmd)

IsSignedAttempt(inv) == IsCommand(inv, "commit") /\ HasArg(inv, "--gpg-sign")

IsUnsignedAttempt(inv) ==
    IsCommand(inv, "commit") /\ HasArg(inv, "--no-gpg-sign")

\* the write attempts of the call that succeeded
SuccessfulWrites ==
    {i \in 1..Len(execLog) : IsCommand(execLog[i], "commit") /\ execLog[i].ok}

UnsignedAttempts == {i \in 1..Len(execLog) : IsUnsignedAttempt(execLog[i])}

SignedAttemptFailed ==
    /\ op = "commit"
    /\ execLog # <<>>
    /\ IsSignedAttempt(execLog[1])
    /\ ~execLog[1].ok

AllResolvedFrom(i) == \A j \in i..Len(execLog) : execLog[j].ok

\* sign=true, forceUnsignedOnFailure=true and the signed attempt has failed
C1_Case ==
    /\ SignedAttemptFailed
    /\ options.sign = "true"
    /\ options.forceUnsignedOnFailure = "true"

\* C1 as stated, taken on the calls whose signed attempt failed with a
\* non-zero exit of the tool: with sign=true and forceUnsignedOnFailure=true,
\* a call whose signed attempt failed reports success, and its commit was
\* created by the unsigned attempt.
C1_FallbackAlwaysSucceeds ==
    (/\ C1_Case
     /\ execLog[1].error \in {ExecError(c) : c \in ExitCodes}
     /\ pc = "done") =>
        /\ outcome = "returned"
        /\ result.success
        /\ commits = <<"unsigned">>

\* C1 amended: with sign=true and forceUnsignedOnFailure=true, after a signed
\* attempt that failed with a value other than null the unsigned attempt is
\* the next invocation; the call reports success exactly when that attempt
\* and both follow-up queries resolve, and then the one commit of the call was
\* created by the unsigned attempt; otherwise it throws the mapped error of
\* the invocation that failed.  After a signed attempt that failed with null
\* no unsigned attempt is run and the call creates no commit.  No commit of
\* the call is a signed one.
C1_FallbackRunsUnsigned ==
    C1_Case =>
        /\ "signed" \notin Range(commits)
        /\ IF execLog[1].error = NullValue
           THEN UnsignedAttempts = {} /\ commits = <<>>
           ELSE /\ pc # "commit:unsigned" =>
                    Len(execLog) >= 2 /\ IsUnsignedAttempt(execLog[2])
                /\ pc = "done" =>
                    (outcome = "returned"
                        <=> Len(execLog) = 4 /\ AllResolvedFrom(2))
                /\ outcome = "returned" =>
                    result.success /\ commits = <<"unsigned">>
                /\ outcome = "thrown" =>
                    /\ ~execLog[Len(execLog)].ok
                    /\ failure = mapGitError(execLog[Len(execLog)].error,
                                             "commit")

C1_Witness ==
    /\ C1_Case
    /\ execLog[1].error = ExecError(128)
    /\ pc = "done"
    /\ outcome = "returned"
    /\ commits = <<"unsigned">>

\* C2: with sign=true and forceUnsignedOnFailure unset or false, a failed
\* signed attempt ends the call at once: it throws the mapped error of that
\* attempt, the signed attempt is the only invocation (no unsigned attempt, no
\* follow-up query), and no commit is created.
C2_SignedFailureIsFinal ==
    (/\ SignedAttemptFailed
     /\ options.sign = "true"
     /\ options.forceUnsignedOnFailure \in {"false", "undefined"}) =>
        /\ pc = "done"
        /\ outcome = "thrown"
        /\ failure = mapGitError(execLog[1].error, "commit")
        /\ Len(execLog) = 1
        /\ commits = <<>>

C2_Witness ==
    /\ SignedAttemptFailed
    /\ options.sign = "true"
    /\ options.forceUnsignedOnFailure = "undefined"
    /\ pc = "done"
    /\ outcome = "thrown"
    /\ failure.cause = ExecError(128)

\* C3 as stated: in every commit call at most one write attempt succeeds, and
\* a call that reports success had exactly one successful write attempt,
\* whatever value the failed signed attempt threw.
C3_ExactlyOneWrite ==
    op = "commit" =>
        /\ Cardinality(SuccessfulWrites) <= 1
        /\ outcome = "returned" => Cardinality(SuccessfulWrites) = 1

\* an is-ancestor call with exactly two refs whose one invocation is over
C4_Case ==
    /\ op = "merge-base"
    /\ Mode(options) = "is-ancestor"
    /\ Len(options.refs) = 2
    /\ Len(execLog) = 1

\* C4: under mode=is-ancestor with two refs, exit code 1 returns
\* {success:true, isAncestor:false, mergeBase:null} and throws nothing, and
\* exit code 0 returns {success:true, isAncestor:true, mergeBase:null}.
C4_AncestryAnswer ==
    C4_Case =>
        /\ execLog[1].ok =>
            /\ outcome = "returned"
            /\ result = MergeBaseResult(NullBase, "true", options.refs,
                                        "is-ancestor")
        /\ (~execLog[1].ok /\ execLog[1].error = ExecError(1)) =>
            /\ outcome = "returned"
            /\ result = MergeBaseResult(NullBase, "false", options.refs,
                                        "is-ancestor")

C4_Witness ==
    /\ C4_Case
    /\ ~execLog[1].ok
    /\ execLog[1].error = ExecError(1)
    /\ outcome = "returned"
    /\ result.isAncestor = "false"
    /\ result.mergeBase = NullBase

\* the invocation of a merge-base call ended with a non-zero exit code
C5_NonZeroExit ==
    /\ op = "merge-base"
    /\ Len(execLog) = 1
    /\ ~execLog[1].ok
    /\ execLog[1].error \in {ExecError(c) : c \in ExitCodes}

\* C5: a non-zero exit other than 1 under is-ancestor, and every non-zero
\* exit (1 included) under default or all, makes the call throw the Error
\* Mapper's error for that failure; it is never a returned result.
C5_OtherExitsFail ==
    (/\ C5_NonZeroExit
     /\ ~(Mode(options) = "is-ancestor" /\ execLog[1].error.code = 1)) =>
        /\ outcome = "thrown"
        /\ failure = mapGitError(execLog[1].error, "merge-base")

C5_Witness ==
    /\ C5_NonZeroExit
    /\ Mode(options) = "all"
    /\ execLog[1].error = ExecError(1)
    /\ outcome = "thrown"

\* C6: a mergeBase call with no refs, or with mode=is-ancestor and a ref
\* count other than two, throws a validation-kind error; no command is built
\* and execGit is never invoked in that call.
C6_ValidationBeforeExec ==
    (/\ op = "merge-base"
     /\ \/ Len(options.refs) = 0
        \/ Mode(options) = "is-ancestor" /\ Len(options.refs) # 2) =>
        /\ pc = "done"
        /\ outcome = "thrown"
        /\ failure.kind = "ValidationError"
        /\ failure.cause.type = "McpError"
        /\ args = <<>>
        /\ execLog = <<>>

C6_Witness ==
    /\ op = "merge-base"
    /\ Mode(options) = "is-ancestor"
    /\ Len(options.refs) = 1
    /\ outcome = "thrown"
    /\ failure.kind = "ValidationError"
    /\ execLog = <<>>

\* a validation-kind error, as the handlers of this repository throw it
IsValidationError(e) == e.type = "McpError" /\ e.origin = "validation"

\* C7 as stated: a diff request with two or more paths fails with a
\* ValidationError before provider.diff is called, so no subprocess runs and
\* the first path is never used alone.
C7_MultiplePathsValidation ==
    (op = "diff" /\ MultiplePaths(options)) =>
        /\ pc = "done"
        /\ outcome = "thrown"
        /\ execLog = <<>>
        /\ IsValidationError(failure)

\* C8 as stated: with signing enabled and forceUnsignedOnFailure=true, a
\* signed attempt that fails with an environment-kind failure or with
\* cancellation is not retried: no unsigned attempt is run and the call fails.
C8_NoRetryOnEnvironmentFailure ==
    (/\ SignedAttemptFailed
     /\ options.forceUnsignedOnFailure = "true"
     /\ execLog[1].error \in {SpawnError, CancelError}) =>
        /\ UnsignedAttempts = {}
        /\ pc = "done" => outcome = "thrown"

\* the path of this text with dest as its last segment
ChildOf(dir, dest) ==
    IF dir = <<"/">> THEN dir \o dest ELSE dir \o <<"/">> \o dest

\* C9: the clone invocation runs in the parent of the absolute-resolved
\* localPath with that path's final segment as the destination argument, and
\* a successful result's localPath is the absolute path; "/work/proj" gives
\* working directory /work, destination proj and result /work/proj.
C9_CloneRunsInParent ==
    (op = "clone" /\ execLog # <<>>) =>
        LET inv == execLog[1]
            dest == inv.cmd[3]
            absolute == Resolve(options.localPath)
        IN  /\ Len(execLog) = 1
            /\ IsCommand(inv, "clone")
            /\ "/" \notin Range(dest)
            /\ IsAbsolute(inv.cwd)
            /\ absolute # <<"/">> =>
                dest # <<>> /\ ChildOf(inv.cwd, dest) = absolute
            /\ outcome = "returned" => result.localPath = absolute
            /\ options.localPath = <<"/", "work", "/", "proj">> =>
                /\ inv.cwd = <<"/", "work">>
                /\ dest = <<"proj">>
                /\ outcome = "returned" =>
                    result.localPath = <<"/", "work", "/", "proj">>

C9_Witness ==
    /\ op = "clone"
    /\ options.localPath = <<"/", "work", "/", "proj">>
    /\ outcome = "returned"
    /\ execLog[1].cwd = <<"/", "work">>
    /\ execLog[1].cmd[3] = <<"proj">>

\* C10: a diff call that reaches executeDiff runs the diff body first and the
\* diffstat invocation second, the second only after the first has resolved
\* and then for every combination of options; the diffstat invocation
\* carries --stat and never --name-only, and there is no third invocation.
C10_BodyThenStat ==
    (op = "diff" /\ ~MultiplePaths(options)) =>
        /\ Len(execLog) <= 2
        /\ pc = "diff:body" => execLog = <<>>
        /\ pc = "diff:stat" => Len(execLog) = 1 /\ execLog[1].ok
        /\ Len(execLog) >= 1 =>
            /\ IsCommand(execLog[1], "diff")
            /\ ~HasArg(execLog[1], "--stat")
        /\ (pc \in {"diff:return", "done"} /\ execLog[1].ok) =>
            Len(execLog) = 2
        /\ Len(execLog) = 2 =>
            /\ execLog[1].ok
            /\ IsCommand(execLog[2], "diff")
            /\ HasArg(execLog[2], "--stat")
            /\ ~HasArg(execLog[2], "--name-only")

C10_Witness ==
    /\ op = "diff"
    /\ options.nameOnly
    /\ Len(execLog) = 2
    /\ HasArg(execLog[1], "--name-only")
    /\ HasArg(execLog[2], "--stat")
    /\ outcome = "returned"

\* C11 as stated: every successful commit call spawns exactly two external
\* processes, one after the other.
C11_TwoProcesses ==
    (op = "commit" /\ outcome = "returned") => Len(execLog) = 2

\* C11 amended: every successful commit call spawns three external
\* processes (one write attempt, rev-parse HEAD, show), or four when a signed
\* attempt that failed with a value other than null was followed by the
\* unsigned retry; each is over before the next starts, the write attempts
\* come first and rev-parse HEAD and show are the last two, in that order.
C11_ThreeOrFourProcesses ==
    (op = "commit" /\ outcome = "returned") =>
        LET n == Len(execLog)
        IN  /\ n \in {3, 4}
            /\ \A i \in 1..(n - 2) : IsCommand(execLog[i], "commit")
            /\ execLog[n - 1].cmd = RevParseCmd /\ execLog[n - 1].ok
            /\ IsCommand(execLog[n], "show") /\ execLog[n].ok
            /\ n = 4 <=> (SignedAttemptFailed /\ execLog[1].error # NullValue)
            /\ n = 4 => IsUnsignedAttempt(execLog[2]) /\ execLog[2].ok

C11_Witness ==
    /\ op = "commit"
    /\ outcome = "returned"
    /\ Len(execLog) = 4
    /\ IsSignedAttempt(execLog[1])
    /\ IsUnsignedAttempt(execLog[2])

\* the preconditions of executeMergeBase hold
PassesValidation ==
    /\ Len(options.refs) >= 1
    /\ Mode(options) = "is-ancestor" => Len(options.refs) = 2

\* C12: a mergeBase call that passes validation, and every clone call, runs
\* exactly one invocation, whether it ends in a result, in the
\* ancestry-negative result or in a failure.
C12_OneProcess ==
    /\ (op = "merge-base" /\ PassesValidation) =>
        /\ Len(execLog) <= 1
        /\ pc = "done" <=> Len(execLog) = 1
        /\ Len(execLog) = 1 => IsCommand(execLog[1], "merge-base")
    /\ op = "clone" =>
        /\ Len(execLog) <= 1
        /\ pc = "done" <=> Len(execLog) = 1
        /\ Len(execLog) = 1 => IsCommand(execLog[1], "clone")

C12_Witness ==
    /\ op = "merge-base"
    /\ Mode(options) = "default"
    /\ Len(options.refs) = 3
    /\ pc = "done"
    /\ outcome = "thrown"
    /\ Len(execLog) = 1

\* signing is disabled for the call
C13_Case ==
    /\ op = "commit"
    /\ \/ options.sign = "false"
       \/ options.sign = "undefined" /\ ~signDefault

\* C13: with sign=false (whatever the process-wide default), or sign absent
\* and the default false, no signed attempt is made; the one write attempt
\* of the call is the first invocation and carries --no-gpg-sign.
C13_UnsignedOnly ==
    C13_Case =>
        /\ pc # "commit:signed"
        /\ \A i \in 1..Len(execLog) : ~HasArg(execLog[i], "--gpg-sign")
        /\ \A i \in 2..Len(execLog) : ~IsCommand(execLog[i], "commit")
        /\ pc # "commit:unsigned" =>
            execLog # <<>> /\ IsUnsignedAttempt(execLog[1])

C13_Witness ==
    /\ op = "commit"
    /\ options.sign = "false"
    /\ signDefault
    /\ outcome = "returned"
    /\ commits = <<"unsigned">>

\* C14: rev-parse HEAD and show run only after a write attempt of the call
\* has succeeded, show directly after rev-parse HEAD and on the hash it
\* resolved; commitHash of a successful result is the trimmed output of
\* rev-parse HEAD and never the output of the commit command.
C14_FollowUpAfterWrite ==
    op = "commit" =>
        /\ \A i \in 1..Len(execLog) :
            /\ execLog[i].cmd = RevParseCmd =>
                \E j \in 1..(i - 1) :
                    IsCommand(execLog[j], "commit") /\ execLog[j].ok
            /\ IsCommand(execLog[i], "show") =>
                /\ i > 1
                /\ execLog[i - 1].cmd = RevParseCmd
                /\ execLog[i - 1].ok
                /\ execLog[i].cmd = ShowCmd(Trim(execLog[i - 1].stdout))
        /\ outcome = "returned" =>
            /\ Len(execLog) >= 2
            /\ execLog[Len(execLog) - 1].cmd = RevParseCmd
            /\ result.commitHash = Trim(execLog[Len(execLog) - 1].stdout)
            /\ result.commitHash # CommitOutput

\* the value the failing step of the call threw, before any mapping
RawFailure ==
    IF op = "merge-base" /\ ~PassesValidation
    THEN RefCountError(Mode(options), options.refs)
    ELSE execLog[Len(execLog)].error

\* a failure has left one of the four orchestrators
OrchestratorFailed ==
    /\ outcome = "thrown"
    /\ ~(op = "diff" /\ MultiplePaths(options))

\* C15: a failure that leaves the commit, diff, merge-base or clone
\* orchestrator is the Error Mapper's output for the raw failure of the
\* failing step and the name of that operation; the cause it carries is the
\* raw value, mapped once.
C15_MappedOnce ==
    OrchestratorFailed =>
        /\ op \in {"commit", "diff", "merge-base", "clone"}
        /\ \/ op = "merge-base" /\ ~PassesValidation /\ execLog = <<>>
           \/ execLog # <<>> /\ ~execLog[Len(execLog)].ok
        /\ failure = mapGitError(RawFailure, op)
        /\ failure.operation = op
        /\ failure.cause = RawFailure
        /\ RawFailure \in Rejections \cup
               {RefCountError(Mode(o), o.refs) : o \in MergeBaseOptionSet}
        /\ op = "diff" => diffPromise = Refused(failure)

C15_Witness ==
    /\ op = "clone"
    /\ outcome = "thrown"
    /\ Len(execLog) = 1
    /\ execLog[1].error = SpawnError
    /\ failure.operation = "clone"
    /\ failure.cause = SpawnError

\* the hashes of a tool output: its lines that hold something other than
\* whitespace, in order, each without the whitespace around it
EmittedHashes(stdout) ==
    LET lines == Split(stdout, "\n")
        HasHash(line) == \E i \in 1..Len(line) : line[i] \notin Whitespace
        kept == SelectSeq(lines, HasHash)
    IN  [i \in 1..Len(kept) |-> Trim(kept[i])]

\* a merge-base call under the given mode whose invocation has resolved
MergeBaseResolved(mode) ==
    /\ op = "merge-base"
    /\ Mode(options) = mode
    /\ pc = "done"
    /\ Len(execLog) = 1
    /\ execLog[1].ok

\* C16: in mode=default a resolved call returns the first hash line of the
\* output, and mergeBase null with success true when the output holds no
\* hash line; it does not fail.
C16_FirstHashOrNull ==
    MergeBaseResolved("default") =>
        LET hashes == EmittedHashes(execLog[1].stdout)
        IN  /\ outcome = "returned"
            /\ result.success
            /\ result.mergeBase =
                   IF hashes = <<>> THEN NullBase ELSE StringBase(hashes[1])

C16_Witness ==
    /\ MergeBaseResolved("default")
    /\ execLog[1].stdout = <<"h", "\n", "k", "\n">>
    /\ result.mergeBase = StringBase(<<"h">>)

\* C17 as stated: in mode=all a resolved call returns a sequence for every
\* output, one entry per hash line, empty when there are no lines.
C17_AlwaysSequence ==
    MergeBaseResolved("all") =>
        /\ outcome = "returned"
        /\ result.mergeBase = ArrayBase(EmittedHashes(execLog[1].stdout))

\* C17 amended: in mode=all a resolved call returns the ordered sequence of
\* the hash lines, one entry per non-blank line without the whitespace around
\* it, when there is at least one; when the output holds no hash line,
\* mergeBase is null.
C17_SequenceOrNull ==
    MergeBaseResolved("all") =>
        LET hashes == EmittedHashes(execLog[1].stdout)
        IN  /\ outcome = "returned"
            /\ result.success
            /\ result.mergeBase =
                   IF hashes = <<>> THEN NullBase ELSE ArrayBase(hashes)

C17_Witness ==
    /\ MergeBaseResolved("all")
    /\ execLog[1].stdout = <<"h", "\n", "\n", "k">>
    /\ result.mergeBase = ArrayBase(<<<<"h">>, <<"k">>>>)

\* the show invocation of a commit call has resolved
ShowResolved ==
    /\ op = "commit"
    /\ pc = "done"
    /\ execLog # <<>>
    /\ IsCommand(execLog[Len(execLog)], "show")
    /\ execLog[Len(execLog)].ok

\* C18: decoding the output of show never fails: the call returns, author
\* is a text (empty when the segment is missing), timestamp is an integer (zero
\* when the segment is missing) and filesChanged holds the non-blank lines
\* of the second segment (none when the segment is missing).
C18_DecodingTotal ==
    ShowResolved =>
        LET stdout == execLog[Len(execLog)].stdout
            records == Split(stdout, GIT_RECORD_DELIMITER)
            fields == Split(records[1], GIT_FIELD_DELIMITER)
        IN  /\ outcome = "returned"
            /\ result.author = fields[1]
            /\ ~result.timestamp.isNaN
            /\ Len(fields) < 2 => result.timestamp.value = 0
            /\ Len(records) < 2 => result.filesChanged = <<>>
            /\ \A i \in 1..Len(result.filesChanged) :
                   Trim(result.filesChanged[i]) # <<>>

\* C19: a commit call that throws has created no commit: no write attempt
\* of the call succeeded.
C19_FailureMeansNoCommit ==
    (op = "commit" /\ outcome = "thrown") =>
        /\ commits = <<>>
        /\ \A i \in 1..Len(execLog) :
               IsCommand(execLog[i], "commit") => ~execLog[i].ok

\* C20: in every argument vector of a diff call that has the "--"
\* separator, the one element after the separator is the requested path;
\* every flag and every ref comes before it.
C20_FlagsBeforeSeparator ==
    op = "diff" =>
        \A i \in 1..Len(execLog) :
            LET cmd == execLog[i].cmd
                seps == {k \in 1..Len(cmd) : cmd[k] = Lit("--")}
            IN  \A s \in seps :
                    (\A k \in seps : s <= k) =>
                        /\ Len(cmd) = s + 1
                        /\ cmd[s + 1] = DiffOptions(options).path

\* the signed attempt of the call failed and the unsigned retry failed too
C21_Case ==
    /\ op = "commit"
    /\ Len(execLog) >= 2
    /\ IsSignedAttempt(execLog[1]) /\ ~execLog[1].ok
    /\ IsUnsignedAttempt(execLog[2]) /\ ~execLog[2].ok

\* C21: when the signed attempt fails, forceUnsignedOnFailure is true and
\* the unsigned retry fails too, the call throws the mapped error of the
\* unsigned attempt; there is no follow-up query, no third write attempt
\* and no commit.
C21_BothAttemptsFail ==
    C21_Case =>
        /\ options.forceUnsignedOnFailure = "true"
        /\ Len(execLog) = 2
        /\ pc = "done"
        /\ outcome = "thrown"
        /\ failure = mapGitError(execLog[2].error, "commit")
        /\ commits = <<>>

C21_Witness ==
    /\ C21_Case
    /\ outcome = "thrown"
    /\ execLog[1].error = ExecError(128)
    /\ execLog[2].error = SpawnError
    /\ failure.cause = SpawnError
    /\ commits = <<>>

\* the text is a --unified=N flag
IsUnifiedFlag(x) == x # <<>> /\ x[1] = "--unified="

\* C22: for every accepted contextLines (0 to 100) the diff body invocation
\* carries --unified=<contextLines> when nameOnly is false, and no --unified
\* flag when nameOnly is true.
C22_UnifiedCarried ==
    (op = "diff" /\ execLog # <<>>) =>
        LET cmd == execLog[1].cmd
            flag == <<"--unified=", ToString(options.contextLines)>>
        IN  IF options.nameOnly
            THEN \A k \in 1..Len(cmd) : ~IsUnifiedFlag(cmd[k])
            ELSE \E k \in 1..Len(cmd) : cmd[k] = flag

\* C23: every successful mergeBase result has success true, the refs and
\* the mode of the request ("default" when the mode was left out), and an
\* isAncestor exactly under is-ancestor, where mergeBase is null; the same
\* holds of the tool's output for the tool input the options came from.
C23_ResultShape ==
    (op = "merge-base" /\ outcome = "returned") =>
        LET r == MergeBaseToolResult(result)
            requested ==
                IF options.mode = "undefined" THEN "default" ELSE options.mode
        IN  /\ r.success
            /\ r.refs = options.refs
            /\ r.mode = requested
            /\ r.isAncestor \in {"true", "false"} <=> requested = "is-ancestor"
            /\ r.isAncestor = "undefined" <=> requested # "is-ancestor"
            /\ requested = "is-ancestor" => r.mergeBase = NullBase
            /\ \A input \in MergeBaseInputSet :
                   options = MergeBaseToolOptions(input) =>
                       r.mode = input.mode /\ r.refs = input.refs

C23_Witness ==
    /\ op = "merge-base"
    /\ outcome = "returned"
    /\ options = MergeBaseToolOptions(
           [refs |-> <<Lit("A"), Lit("B")>>, mode |-> "default"])
    /\ options.mode = "undefined"
    /\ result.mode = "default"
    /\ result.isAncestor = "undefined"
    /\ result.mergeBase.kind = "string"

====
